---- MODULE Spec2Model ----
(***************************************************************************)
(* Model of the terraform-commits-analyzer: the clone-based analysis run   *)
(* (tests/test_analysis.py driving src/providers/github.py and             *)
(* src/analyzers), the 30-day bucketing of src/main.py, and the series     *)
(* summation of aggregate_statistics.                                      *)
(*                                                                         *)
(* Strings are sequences of one-character strings.  A datetime is an       *)
(* integer number of ticks since midnight of day 0 (1 January of a         *)
(* non-leap year); a day has TicksPerDay ticks.  None is the integer -1    *)
(* where a datetime is expected.                                           *)
(***************************************************************************)
EXTENDS Integers, Sequences, FiniteSets, TLC

\* ------------------------------------------------------------- bounds
TicksPerDay == 2      \* resolution of a datetime within one day
MaxRepos    == 2      \* repositories the search can return
PageSize    == 1      \* repositories per page of the search result
RateLimit   == 2      \* calls the API grants per rate window
WindowDays  == 45     \* a positive ANALYSIS_DAYS value
MaxSeries   == 2      \* series summed at once (summation specification)
MaxLen      == 3      \* longest series summed (summation specification)
MaxBucketRepos   == 2 \* repositories handed to create_monthly_breakdown
MaxBucketCommits == 1 \* commits per repository handed to create_monthly_breakdown
MaxFiles    == 2      \* changed files of a commit handed to the analyzer
MaxCount    == 2      \* largest monthly count handed to a forecast
MaxPoints   == 3      \* longest series handed to a forecast
MaxEntries  == 2      \* commits in a log output handed to the parser
MaxFileLines == 2     \* changed-file lines per commit in such an output

\* ------------------------------------------------- program constants
ShaLen     == 40      \* len(parts[1]) == 40
MonthCount == 12      \* for month in range(12)
BucketDays == 30      \* timedelta(days=30*month)

NoneDate == 0 - 1

\* ------------------------------------------------------------ strings
EndsWith(s, suf) ==
    /\ Len(s) >= Len(suf)
    /\ SubSeq(s, Len(s) - Len(suf) + 1, Len(s)) = suf

Contains(s, sub) ==
    \E i \in 1..(Len(s) - Len(sub) + 1) : SubSeq(s, i, i + Len(sub) - 1) = sub

LowerChar(c) ==
    CASE c = "S" -> "s" [] c = "K" -> "k" [] c = "I" -> "i"
      [] c = "P" -> "p" [] c = "C" -> "c" [] c = "T" -> "t"
      [] c = "F" -> "f" [] OTHER -> c

Lower(s) == [i \in 1..Len(s) |-> LowerChar(s[i])]

RECURSIVE SumSeq(_)
SumSeq(s) == IF s = << >> THEN 0 ELSE s[1] + SumSeq(Tail(s))

RECURSIVE Flatten(_)
Flatten(ss) == IF ss = << >> THEN << >> ELSE ss[1] \o Flatten(Tail(ss))

SelectIdx(s, Test(_)) == {i \in 1..Len(s) : Test(s[i])}

\* ----------------------------------------------------------- calendar
\* Month m counts from 0 = January of the year of day 0.
DaysInMonth(m) ==
    LET k == m % 12
        leap == ((m \div 12) % 4) = 1
    IN  IF k = 1 THEN (IF leap THEN 29 ELSE 28)
        ELSE IF k \in {3, 5, 8, 10} THEN 30 ELSE 31

RECURSIVE MonthStartDay(_)
MonthStartDay(m) == IF m = 0 THEN 0 ELSE MonthStartDay(m - 1) + DaysInMonth(m - 1)

RECURSIVE MonthFrom(_, _)
MonthFrom(d, m) == IF d < MonthStartDay(m + 1) THEN m ELSE MonthFrom(d, m + 1)

MonthOfDay(d) == MonthFrom(d, 0)

DayOf(t) == t \div TicksPerDay

Midnight(d) == d * TicksPerDay

\* datetime(current_date.year, current_date.month + 1, 1), with the
\* December case, of the test driver's create_monthly_breakdown
NextMonthStart(t) == Midnight(MonthStartDay(MonthOfDay(DayOf(t)) + 1))

\* ------------------------------------------------- the git log output
\* A line of the log output is a sequence of words separated by single
\* spaces; the blank line is << >>.  A word is a date (%ad, 10
\* characters), a commit identifier (%H, 40 characters) or plain text.
DateWord(d) == [k |-> "date", txt |-> << >>, num |-> d]
ShaWord(id) == [k |-> "sha",  txt |-> << >>, num |-> id]
TextWord(s) == [k |-> "text", txt |-> s,     num |-> 0]

WordLen(w) ==
    CASE w.k = "date" -> 10
      [] w.k = "sha"  -> ShaLen
      [] OTHER        -> Len(w.txt)

\* the characters of a run of plain-text words, joined by single spaces
RECURSIVE Join(_)
Join(ws) ==
    IF ws = << >> THEN << >>
    ELSE IF Len(ws) = 1 THEN ws[1].txt
    ELSE ws[1].txt \o <<" ">> \o Join(Tail(ws))

\* '--', '*.tf', '*.tfvars': the paths the log command is scoped to
TF      == <<".", "t", "f">>
TFVARS  == <<".", "t", "f", "v", "a", "r", "s">>
TFVJSON == <<".", "t", "f", "v", "a", "r", "s", ".", "j", "s", "o", "n">>

MatchesPathspec(path) == EndsWith(path, TF) \/ EndsWith(path, TFVARS)

KeepSeq(s, Test(_)) ==
    LET F[i \in 0..Len(s)] ==
            IF i = 0 THEN << >>
            ELSE IF Test(s[i]) THEN Append(F[i - 1], s[i]) ELSE F[i - 1]
    IN  F[Len(s)]

\* since_date / until_date: strftime("%Y-%m-%d"), "1970-01-01" for None
EpochDay == 0 - 19358

SinceDay(start_date) == IF start_date = NoneDate THEN EpochDay ELSE DayOf(start_date)

\* What `git log --all --since --until --pretty=format:'%ad %H %s'
\* --date=format:%Y-%m-%d --name-only -- '*.tf' '*.tfvars'` prints for a
\* history (day, sha, subject words, touched paths, refs per commit): for
\* every commit of any ref dated in the range that touches a path in scope, its header,
\* the paths in scope it touches, and a blank line.
GitLogOutput(history, start_date, end_date) ==
    LET sel == KeepSeq(history,
                 LAMBDA c : /\ c.refs # {}
                            /\ SinceDay(start_date) <= c.day
                            /\ c.day <= DayOf(end_date)
                            /\ \E i \in 1..Len(c.paths) :
                                  MatchesPathspec(Join(c.paths[i])))
        out(c) ==
            LET shown == KeepSeq(c.paths, LAMBDA p : MatchesPathspec(Join(p)))
            IN  << <<DateWord(c.day), ShaWord(c.sha)>> \o c.subject >>
                \o shown \o << << >> >>
    IN  Flatten([i \in 1..Len(sel) |-> out(sel[i])])

\* ------------------------------------------ GitHubProvider.get_commits
\* parts = line.split(' ', 2); len(parts) >= 3 and len(parts[1]) == 40
IsHeader(line) == Len(line) >= 3 /\ WordLen(line[2]) = ShaLen

\* datetime.strptime(parts[0], '%Y-%m-%d') raises unless parts[0] is a date
ParsesAsDate(w) == w.k = "date"

Closed(commits, cur, files) ==
    IF cur # << >> THEN Append(commits, [cur[1] EXCEPT !.files = files])
    ELSE commits

\* The loop over result.stdout.splitlines() and the append of the last
\* commit; ok is FALSE when strptime raised.
RECURSIVE ParseLines(_, _, _, _)
ParseLines(lines, commits, cur, files) ==
    IF lines = << >> THEN [ok |-> TRUE, commits |-> Closed(commits, cur, files)]
    ELSE LET line == Head(lines) IN
        IF line = << >> THEN ParseLines(Tail(lines), commits, cur, files)
        ELSE IF IsHeader(line) THEN
            IF ~ParsesAsDate(line[1]) THEN [ok |-> FALSE, commits |-> << >>]
            ELSE ParseLines(Tail(lines),
                            Closed(commits, cur, files),
                            << [date    |-> Midnight(line[1].num),
                                sha     |-> line[2],
                                message |-> Join(SubSeq(line, 3, Len(line))),
                                files   |-> << >>] >>,
                            IF cur # << >> THEN << >> ELSE files)
        ELSE ParseLines(Tail(lines), commits, cur,
                        IF cur # << >> THEN Append(files, Join(line)) ELSE files)

\* lines 102-138: the commits parsed from the output, the empty list when
\* an exception was raised on the way
parse_log(lines) ==
    LET r == ParseLines(lines, << >>, << >>, << >>)
    IN  IF r.ok THEN r.commits ELSE << >>

\* get_commits: run is the fate of the log command ("ok", "nonzero" for a
\* non-zero exit, "raise" for an exception of subprocess.run); every
\* failure returns the empty list.  The branch argument is not used: the
\* command is built without it.
get_commits(history, start_date, end_date, branch, run) ==
    IF run # "ok" THEN << >>
    ELSE parse_log(GitLogOutput(history, start_date, end_date))

\* ---------------------------------------------------- TerraformAnalyzer
terraform_extensions == {TF, TFVARS, TFVJSON}

is_terraform_file_anycase(filename) ==
    \E ext \in terraform_extensions : EndsWith(Lower(filename), ext)

is_terraform_file(filename) == \E ext \in terraform_extensions : EndsWith(filename, ext)

SKIPCI == <<"[", "s", "k", "i", "p", " ", "c", "i", "]">>

is_skip_ci_exact(commit) == Contains(commit.message, SKIPCI)

is_skip_ci(commit) == Contains(Lower(commit.message), SKIPCI)

\* TerraformAnalyzer.analyze_repository with the commits handed in
analyze_commits(commits) ==
    LET kept == KeepSeq(commits,
                  LAMBDA c : /\ ~is_skip_ci(c)
                             /\ KeepSeq(c.files, is_terraform_file) # << >>)
        terraform_commits ==
            [i \in 1..Len(kept) |->
                [date    |-> kept[i].date,
                 files   |-> KeepSeq(kept[i].files, is_terraform_file),
                 message |-> kept[i].message,
                 branch  |-> "unknown"]]
    IN  [total_commits |-> Len(terraform_commits), commits |-> terraform_commits]

\* -------------------------------------------------------- UsagePredictor
\* Numbers are exact rationals: p/q with q > 0.
GrowthPercent == 10    \* growth_rate = 0.1

\* Python's round(): to the nearest integer, ties to the even one
RoundHalfEven(p, q) ==
    LET f == p \div q
        r == p - f * q
    IN  IF 2 * r < q THEN f
        ELSE IF 2 * r > q THEN f + 1
        ELSE IF f % 2 = 0 THEN f ELSE f + 1

SumSq(y) == SumSeq([i \in 1..Len(y) |-> y[i] * y[i]])

SumXY(y) == SumSeq([i \in 1..Len(y) |-> (i - 1) * y[i]])

SumX(n) == SumSeq([i \in 1..n |-> i - 1])

SumXX(n) == SumSeq([i \in 1..n |-> (i - 1) * (i - 1)])

\* model.coef_[0] of the least-squares fit of y against 0..n-1, as <<num, den>>;
\* a single point gives slope 0
historical_trend(y) ==
    LET n   == Len(y)
        den == n * SumXX(n) - SumX(n) * SumX(n)
    IN  IF den = 0 THEN <<0, 1>>
        ELSE <<n * SumXY(y) - SumX(n) * SumSeq(y), den>>

variance_sample(y) ==
    <<Len(y) * SumSq(y) - SumSeq(y) * SumSeq(y),
      IF Len(y) = 1 THEN 1 ELSE Len(y) * (Len(y) - 1)>>

\* np.var(y), as <<num, den>>
variance(y) == <<Len(y) * SumSq(y) - SumSeq(y) * SumSeq(y), Len(y) * Len(y)>>

_calculate_confidence(var, data_points) ==
    IF data_points < 3 THEN "low"
    ELSE LET d == var[2] * data_points * data_points
         IN  IF 10 * var[1] < d THEN "high"
             ELSE IF 10 * var[1] < 3 * d THEN "medium"
             ELSE "low"

EmptyPrediction ==
    [monthly |-> 0, annual |-> 0, confidence |-> "low",
     factors |-> [historical_trend |-> 0, growth_rate |-> 0, variance |-> 0]]

\* predict_usage with months_ahead = 1; factors are kept in hundredths
predict_usage(monthly_data) ==
    IF monthly_data = << >> THEN EmptyPrediction
    ELSE LET y     == monthly_data
             t     == historical_trend(y)
             v     == variance(y)
             raw   == y[Len(y)] * (100 + GrowthPercent) * t[2] + 100 * t[1]
             p     == IF raw < 0 THEN 0 ELSE raw
             q     == 100 * t[2]
         IN  [monthly    |-> RoundHalfEven(p, q),
              annual     |-> RoundHalfEven(12 * p, q),
              confidence |-> _calculate_confidence(v, Len(y)),
              factors    |-> [historical_trend |-> RoundHalfEven(100 * t[1], t[2]),
                              growth_rate      |-> GrowthPercent,
                              variance         |-> RoundHalfEven(100 * v[1], v[2])]]

\* predict_usage of the legacy script (analyze_terraform_commits.py): the
\* value of the fitted line at index n, clamped at zero;
\* intercept + slope * n = mean(y) + slope * (n + 1) / 2
legacy_predict_usage(monthly_data) ==
    IF monthly_data = << >> THEN [monthly |-> 0, annual |-> 0]
    ELSE LET y   == monthly_data
             n   == Len(y)
             t   == historical_trend(y)
             raw == 2 * SumSeq(y) * t[2] + t[1] * n * (n + 1)
             p   == IF raw < 0 THEN 0 ELSE raw
             q   == 2 * n * t[2]
         IN  [monthly |-> RoundHalfEven(p, q),
              annual  |-> RoundHalfEven(12 * p, q)]

\* --------------------------------------- tests/test_analysis.py helpers
CountIn(commits, lo, hi) ==
    Cardinality({i \in 1..Len(commits) : lo <= commits[i].date /\ commits[i].date < hi})

RECURSIVE MonthlyFrom(_, _, _)
MonthlyFrom(current_date, end_date, commits) ==
    IF current_date > end_date THEN << >>
    ELSE <<CountIn(commits, current_date, NextMonthStart(current_date))>>
         \o MonthlyFrom(NextMonthStart(current_date), end_date, commits)

\* create_monthly_breakdown of the test driver: calendar months from
\* start_date; start_date.year raises on None
test_monthly_breakdown(start_date, end_date, commits) ==
    IF start_date = NoneDate THEN [ok |-> FALSE, data |-> << >>]
    ELSE [ok |-> TRUE, data |-> MonthlyFrom(start_date, end_date, commits)]

\* repo['default_branch'] of every repository listed
default_branch == "main"

\* the try block of analyze_repository: the statistics of one cloned
\* repository, or ok = FALSE when an exception leaves the function
repository_statistics(name, history, start_date, end_date, run) ==
    LET commits      == get_commits(history, start_date, end_date, default_branch, run)
        result       == analyze_commits(commits)
        monthly_data == test_monthly_breakdown(start_date, end_date, result.commits)
    IN  IF ~monthly_data.ok THEN [ok |-> FALSE]
        ELSE [ok    |-> TRUE,
              stats |-> [name          |-> name,
                         total_commits |-> result.total_commits,
                         monthly_data  |-> monthly_data.data,
                         predictions   |-> predict_usage(monthly_data.data),
                         commits       |-> result.commits]]

DefaultAggregate ==
    [total_commits |-> 0, monthly_data |-> << >>, predictions |-> EmptyPrediction]

\* monthly_data = [0] * len(first); monthly_data[i] += count for every
\* series: an index past the first series' length raises IndexError
sum_monthly(series) ==
    LET monthly_length == Len(series[1])
    IN  IF \E k \in 1..Len(series) : Len(series[k]) > monthly_length
        THEN [ok |-> FALSE, data |-> << >>]
        ELSE [ok   |-> TRUE,
              data |-> [i \in 1..monthly_length |->
                          SumSeq([k \in 1..Len(series) |->
                                    IF i <= Len(series[k]) THEN series[k][i] ELSE 0])]]

Active(repo_stats) == KeepSeq(repo_stats, LAMBDA st : st.total_commits > 0)

aggregate_statistics(repo_stats) ==
    IF repo_stats = << >> \/ Active(repo_stats) = << >>
    THEN [ok |-> TRUE, value |-> DefaultAggregate]
    ELSE LET act == Active(repo_stats)
             m   == sum_monthly([k \in 1..Len(act) |-> act[k].monthly_data])
         IN  IF ~m.ok THEN [ok |-> FALSE]
             ELSE [ok    |-> TRUE,
                   value |-> [total_commits |-> SumSeq([k \in 1..Len(act) |-> act[k].total_commits]),
                              monthly_data  |-> m.data,
                              predictions   |-> predict_usage(m.data),
                              active_repos  |-> Len(act),
                              total_repos   |-> Len(repo_stats)]]

\* the printed totals, the per-repository breakdown and the report file
\* of test_github_provider; err names the exception that ends them
MonthLabel(end_date, back) == MonthOfDay(DayOf(end_date) - BucketDays * back)

\* the dict comprehension of the report: one key per label, a later
\* bucket with the same label replacing the earlier one
monthly_breakdown(end_date, monthly_data) ==
    LET n        == Len(monthly_data)
        labels   == {MonthLabel(end_date, n - i) : i \in 1..n}
        last(l)  == CHOOSE i \in 1..n :
                       /\ MonthLabel(end_date, n - i) = l
                       /\ \A j \in 1..n : MonthLabel(end_date, n - j) = l => j <= i
    IN  [l \in labels |-> monthly_data[last(l)]]

emit_report(aggregated, repo_stats, end_date) ==
    IF "total_repos" \notin DOMAIN aggregated THEN [ok |-> FALSE, err |-> "KeyError"]
    ELSE IF aggregated.monthly_data = << >> THEN [ok |-> FALSE, err |-> "ZeroDivisionError"]
    ELSE LET n        == Len(aggregated.monthly_data)
             inactive == KeepSeq(repo_stats, LAMBDA st : ~(st.total_commits > 0))
         IN  [ok     |-> TRUE,
              report |-> [total_repositories  |-> aggregated.total_repos,
                          active_repositories |-> aggregated.active_repos,
                          total_commits       |-> aggregated.total_commits,
                          average_monthly_commits |-> <<SumSeq(aggregated.monthly_data), n>>,
                          monthly_breakdown   |-> monthly_breakdown(end_date, aggregated.monthly_data),
                          predictions         |-> aggregated.predictions,
                          active              |-> [k \in 1..Len(Active(repo_stats)) |->
                                                     [name          |-> Active(repo_stats)[k].name,
                                                      total_commits |-> Active(repo_stats)[k].total_commits]],
                          inactive            |-> [k \in 1..Len(inactive) |-> inactive[k].name]]]

\* ------------------------------------------------------------ src/main.py
\* generate_report's monthly_breakdown: labels count forward from the
\* window start, (start_date + timedelta(days=30*i)).strftime('%Y-%m')
StartLabel(start_date, i) == MonthOfDay(DayOf(start_date) + BucketDays * i)

main_monthly_breakdown(start_date, monthly_data) ==
    LET n        == Len(monthly_data)
        labels   == {StartLabel(start_date, i - 1) : i \in 1..n}
        last(l)  == CHOOSE i \in 1..n :
                       /\ StartLabel(start_date, i - 1) = l
                       /\ \A j \in 1..n : StartLabel(start_date, j - 1) = l => j <= i
    IN  [l \in labels |-> monthly_data[last(l)]]

\* the same with the end of a bucket counted in: date <= month_end
create_monthly_breakdown_closed(start_date, all_repos_data) ==
    [m \in 1..MonthCount |->
        LET month_start == start_date + BucketDays * (m - 1) * TicksPerDay
            month_end   == month_start + BucketDays * TicksPerDay
        IN  SumSeq([r \in 1..Len(all_repos_data) |->
                      CountIn(all_repos_data[r].commits, month_start, month_end + 1)])]

\* create_monthly_breakdown: for month in range(12), the commits of every
\* repository with month_start <= date < month_end, month_start being
\* start_date + 30*month days and month_end 30 days later
create_monthly_breakdown(start_date, all_repos_data) ==
    [m \in 1..MonthCount |->
        LET month_start == start_date + BucketDays * (m - 1) * TicksPerDay
            month_end   == month_start + BucketDays * TicksPerDay
        IN  SumSeq([r \in 1..Len(all_repos_data) |->
                      CountIn(all_repos_data[r].commits, month_start, month_end)])]

\* ------------------------------------------------------------ the state
VARIABLES
    pc,          \* where test_github_provider stands
    env,         \* GITHUB_TOKEN and GITHUB_OWNER set or not, ANALYSIS_DAYS
    api,         \* the remote side: kind of the owner, credential, call budget, clock
    calls,       \* the remote calls issued so far, with the budget they met
    is_org,      \* provider.is_org ("unset" before the owner is resolved)
    remote,      \* the owner's repositories the search matches, with their histories
    page,        \* result pages of the search fetched so far
    repos,       \* the list get_repositories returned
    idx,         \* index (from 1) of the next repository of the loop
    dirs,        \* names of the working directories present under clone_dir
    fate,        \* per analysed repository: how its clone, log and removal went
    repo_stats,  \* the statistics collected by the loop
    aggregated,  \* << >>, or <<the result of aggregate_statistics>>
    report,      \* the report file: << >> when absent, else <<its content>>
    result,      \* how the run ended
    runs,        \* the ends of earlier runs of the same process environment
    fn           \* input and output of a function applied on its own

vars == <<pc, env, api, calls, is_org, remote, page, repos, idx, dirs, fate,
          repo_stats, aggregated, report, result, runs, fn>>

\* ------------------------------------------------------ the environment
W(s) == <<TextWord(s)>>

MAIN_TF   == W(<<"m", ".", "t", "f">>)
README    == W(<<"r", ".", "m", "d">>)
VARS_JSON == W(<<"v">> \o TFVJSON)
FIX       == W(<<"f", "i", "x">>)
SKIP      == <<TextWord(<<"[", "S", "k", "i", "p">>), TextWord(<<"C", "I", "]">>)>>

\* datetime.now() of the run, at noon of 17 March
EndDate == Midnight(75) + 1

StartDate(days) == IF days > 0 THEN EndDate - days * TicksPerDay ELSE NoneDate

\* refs: the branches the commit is reachable from
Commit(day, sha, subject, paths, refs) ==
    [day |-> day, sha |-> sha, subject |-> subject, paths |-> paths, refs |-> refs]

\* the histories a repository may have: none; commits that do not
\* qualify; qualifying commits on the first and the last day of the window
HistoryMenu ==
    << << >>,
       << Commit(74, 3, SKIP, <<MAIN_TF>>, {"main"}),
          Commit(60, 4, FIX, <<VARS_JSON>>, {"main"}),
          Commit(40, 2, FIX, <<README>>, {"main", "dev"}) >>,
       << Commit(75, 5, FIX, <<README, MAIN_TF>>, {"main"}),
          Commit(45, 6, FIX, <<MAIN_TF>>, {"dev"}),
          Commit(30, 7, FIX, <<MAIN_TF>>, {"main", "dev"}) >> >>

\* a repository is named by its index in the search result
Remotes ==
    UNION {[1..n -> 1..Len(HistoryMenu)] : n \in 0..MaxRepos}

HistoryOf(i) == HistoryMenu[remote[i]]

Exhausted(a) == a.remaining = 0 /\ a.now < a.reset

\* the budget after a call the server accepted
Spent(a) ==
    IF a.now >= a.reset
    THEN [a EXCEPT !.remaining = RateLimit - 1, !.reset = a.now + 1, !.checked = FALSE]
    ELSE [a EXCEPT !.remaining = a.remaining - 1, !.checked = FALSE]

Issued(what) == [call |-> what, checked |-> api.checked, exhausted |-> Exhausted(api)]

NoFn == [op |-> "none"]

InitRun ==
    /\ pc = "config"
    /\ env \in [token : BOOLEAN, owner : BOOLEAN, analysis_days : {0, WindowDays}]
    /\ api \in [owner_kind : {"org", "user", "none"}, cred_ok : BOOLEAN,
                remaining : 0..RateLimit, reset : {0, 1}, now : {0}, checked : {FALSE}]
    /\ calls = << >>
    /\ is_org = "unset"
    /\ remote \in Remotes
    /\ page = 0
    /\ repos = << >>
    /\ idx = 1
    /\ dirs \in SUBSET {i \in 1..MaxRepos : i <= Len(remote)}
    /\ fate = << >>
    /\ repo_stats = << >>
    /\ aggregated = << >>
    /\ report = << >>
    /\ result = "running"

Init == InitRun /\ runs = {} /\ fn = NoFn

\* --------------------------------------------------- test_github_provider
Fail(kind) ==
    /\ pc' = "done"
    /\ result' = kind

\* lines 145-152: the two required settings
CheckConfig ==
    /\ pc = "config"
    /\ IF env.token /\ env.owner
       THEN pc' = "org" /\ result' = result
       ELSE Fail("missing_config")
    /\ UNCHANGED <<env, api, calls, is_org, remote, page, repos, idx, dirs, fate,
                   repo_stats, aggregated, report, runs, fn>>

\* GitHubProvider.__init__: self.client.get_organization(owner_name)
LookupOrganization ==
    /\ pc = "org"
    /\ calls' = Append(calls, Issued("get_organization"))
    /\ IF api.cred_ok /\ ~Exhausted(api)
       THEN /\ api' = Spent(api)
            /\ IF api.owner_kind = "org"
               THEN is_org' = "yes" /\ pc' = "rate"
               ELSE is_org' = is_org /\ pc' = "user"
       ELSE /\ api' = [api EXCEPT !.checked = FALSE]
            /\ is_org' = is_org
            /\ pc' = "user"
    /\ UNCHANGED <<env, remote, page, repos, idx, dirs, fate, repo_stats,
                   aggregated, report, result, runs, fn>>

\* the except branch of __init__: self.client.get_user(owner_name); its
\* exception leaves the constructor and reaches the driver's handler
LookupUser ==
    /\ pc = "user"
    /\ calls' = Append(calls, Issued("get_user"))
    /\ IF api.cred_ok /\ ~Exhausted(api)
       THEN /\ api' = Spent(api)
            /\ IF api.owner_kind # "none"
               THEN is_org' = "no" /\ pc' = "rate" /\ result' = result
               ELSE is_org' = is_org /\ Fail("error_not_found")
       ELSE /\ api' = [api EXCEPT !.checked = FALSE]
            /\ is_org' = is_org
            /\ Fail(IF api.cred_ok THEN "error_rate_limit" ELSE "error_bad_credentials")
    /\ UNCHANGED <<env, remote, page, repos, idx, dirs, fate, repo_stats,
                   aggregated, report, runs, fn>>

\* handle_rate_limit: sleep until the reset when no call is left
handle_rate_limit(a) ==
    IF a.remaining = 0 /\ a.reset - a.now > 0
    THEN [a EXCEPT !.now = a.reset, !.checked = TRUE]
    ELSE [a EXCEPT !.checked = TRUE]

\* get_repositories: self.handle_rate_limit()
ListRateCheck ==
    /\ pc = "rate"
    /\ api' = handle_rate_limit(api)
    /\ pc' = "search"
    /\ UNCHANGED <<env, calls, is_org, remote, page, repos, idx, dirs, fate,
                   repo_stats, aggregated, report, result, runs, fn>>

Pages == IF Len(remote) = 0 THEN 1 ELSE (Len(remote) + PageSize - 1) \div PageSize

\* get_repositories: the list comprehension over search_repositories
\* fetches the result page by page
SearchPage ==
    /\ pc = "search"
    /\ calls' = Append(calls, Issued("search_repositories"))
    /\ IF Exhausted(api)
       THEN /\ api' = [api EXCEPT !.checked = FALSE]
            /\ Fail("error_rate_limit")
            /\ UNCHANGED <<page, repos>>
       ELSE /\ api' = Spent(api)
            /\ page' = page + 1
            /\ result' = result
            /\ IF page + 1 < Pages
               THEN pc' = "search" /\ repos' = repos
               ELSE pc' = "listed" /\ repos' = [i \in 1..Len(remote) |-> i]
    /\ UNCHANGED <<env, is_org, remote, idx, dirs, fate, repo_stats, aggregated,
                   report, runs, fn>>

\* lines 163-165: if not repos: return
CheckRepos ==
    /\ pc = "listed"
    /\ IF repos = << >> THEN Fail("no_repos")
       ELSE pc' = "analyze" /\ result' = result
    /\ UNCHANGED <<env, api, calls, is_org, remote, page, repos, idx, dirs, fate,
                   repo_stats, aggregated, report, runs, fn>>

\* cleanup: shutil.rmtree, whose exception is only printed
cleanup(present, name, removed) == IF removed THEN present \ {name} ELSE present

\* One turn of the loop of lines 183-186: analyze_repository on repos[idx].
\* got: the clone (or the pull of a directory already there) succeeded;
\* run: the fate of the log command; removed: rmtree succeeded.
AnalyzeRepository ==
    /\ pc = "analyze"
    /\ idx <= Len(repos)
    /\ \E got \in BOOLEAN, run \in {"ok", "nonzero", "raise"}, removed \in BOOLEAN :
         LET name  == repos[idx]
             start == StartDate(env.analysis_days)
             how   == IF name \in dirs
                      THEN (IF got THEN "updated" ELSE "update_failed")
                      ELSE (IF got THEN "cloned" ELSE "clone_failed")
         IN  IF ~got
             THEN /\ run = "ok" /\ removed
                  /\ fate' = Append(fate, [name |-> name, clone |-> how, log |-> "none",
                                           raised |-> FALSE, removal |-> "none"])
                  /\ idx' = idx + 1
                  /\ UNCHANGED <<dirs, repo_stats, pc, result>>
             ELSE LET r == repository_statistics(name, HistoryOf(name), start, EndDate, run)
                  IN  /\ dirs' = cleanup(dirs \cup {name}, name, removed)
                      /\ fate' = Append(fate, [name |-> name, clone |-> how, log |-> run,
                                               raised |-> ~r.ok,
                                               removal |-> IF removed THEN "done" ELSE "failed"])
                      /\ IF r.ok
                         THEN /\ repo_stats' = Append(repo_stats, r.stats)
                              /\ idx' = idx + 1
                              /\ UNCHANGED <<pc, result>>
                         ELSE /\ Fail("error_attribute")
                              /\ UNCHANGED <<repo_stats, idx>>
    /\ UNCHANGED <<env, api, calls, is_org, remote, page, repos, aggregated,
                   report, runs, fn>>

\* line 189: aggregated = aggregate_statistics(repo_stats)
Aggregate ==
    /\ pc = "analyze"
    /\ idx > Len(repos)
    /\ LET a == aggregate_statistics(repo_stats)
       IN  IF a.ok
           THEN aggregated' = <<a.value>> /\ pc' = "emit" /\ result' = result
           ELSE aggregated' = aggregated /\ Fail("error_index")
    /\ UNCHANGED <<env, api, calls, is_org, remote, page, repos, idx, dirs, fate,
                   repo_stats, report, runs, fn>>

\* lines 191-290: the printed totals and the report file
EmitReport ==
    /\ pc = "emit"
    /\ LET e == emit_report(aggregated[1], repo_stats, EndDate)
       IN  IF e.ok
           THEN report' = <<e.report>> /\ Fail("report")
           ELSE report' = report
                /\ Fail(IF e.err = "KeyError" THEN "error_key" ELSE "error_zero_division")
    /\ UNCHANGED <<env, api, calls, is_org, remote, page, repos, idx, dirs, fate,
                   repo_stats, aggregated, runs, fn>>

Next ==
    \/ CheckConfig
    \/ LookupOrganization
    \/ LookupUser
    \/ ListRateCheck
    \/ SearchPage
    \/ CheckRepos
    \/ AnalyzeRepository
    \/ Aggregate
    \/ EmitReport

Spec == Init /\ [][Next]_vars

\* ------------------------------------------------------- repeated runs
\* what a caller of test_github_provider can observe when it returns: the
\* function returns None on every path and sets no exit status
Obs == [returned |-> "None", exit_status |-> 0, report |-> report # << >>]

Class ==
    IF result \in {"missing_config", "error_not_found", "error_bad_credentials"}
    THEN "fatal"
    ELSE IF result = "no_repos" \/ (result = "error_key" /\ Active(repo_stats) = << >>)
    THEN "nothing"
    ELSE IF result = "report" THEN "found"
    ELSE "other"

End == [class |-> Class, obs |-> Obs]

\* The driver is started again, with settings of its own, in the same
\* surroundings: the owner's repositories and whatever is left under
\* clone_dir stay as they are; the call budget is that of a new rate window.
Restart ==
    /\ pc = "done"
    /\ runs' = runs \cup {End}
    /\ pc' = "config"
    /\ env' \in [token : BOOLEAN, owner : BOOLEAN, analysis_days : {0, WindowDays}]
    /\ \E kind \in {"org", "user", "none"}, cred \in BOOLEAN :
          api' = [owner_kind |-> kind, cred_ok |-> cred, remaining |-> RateLimit,
                  reset |-> 1, now |-> 0, checked |-> FALSE]
    /\ calls' = << >>
    /\ is_org' = "unset"
    /\ page' = 0
    /\ repos' = << >>
    /\ idx' = 1
    /\ fate' = << >>
    /\ repo_stats' = << >>
    /\ aggregated' = << >>
    /\ report' = << >>
    /\ result' = "running"
    /\ UNCHANGED <<remote, dirs, fn>>

NextRuns == Next \/ Restart

SpecRuns == Init /\ [][NextRuns]_vars

\* ------------------------------------------- functions applied on their own
\* the driver at rest while a function is applied to drawn inputs
Idle ==
    /\ pc = "idle"
    /\ env = [token |-> FALSE, owner |-> FALSE, analysis_days |-> 0]
    /\ api = [owner_kind |-> "none", cred_ok |-> FALSE, remaining |-> 0,
              reset |-> 0, now |-> 0, checked |-> FALSE]
    /\ calls = << >>
    /\ is_org = "unset"
    /\ remote = << >>
    /\ page = 0
    /\ repos = << >>
    /\ idx = 1
    /\ dirs = {}
    /\ fate = << >>
    /\ repo_stats = << >>
    /\ aggregated = << >>
    /\ report = << >>
    /\ result = "running"
    /\ runs = {}

RunVars == <<pc, env, api, calls, is_org, remote, page, repos, idx, dirs, fate,
             repo_stats, aggregated, report, result, runs>>

SeqsUpTo(S, n) == UNION {[1..k -> S] : k \in 0..n}

\* the summation of aggregate_statistics on drawn series
SeriesMenu == SeqsUpTo(0..1, MaxLen)

InitSum ==
    /\ Idle
    /\ fn \in [op : {"sum"}, done : {FALSE},
               arg : SeqsUpTo(SeriesMenu, MaxSeries) \ {<< >>},
               out : {[ok |-> FALSE, data |-> << >>]}]

ApplySum ==
    /\ fn.op = "sum"
    /\ ~fn.done
    /\ fn' = [fn EXCEPT !.done = TRUE, !.out = sum_monthly(fn.arg)]
    /\ UNCHANGED RunVars

SpecSum == InitSum /\ [][ApplySum]_vars

\* create_monthly_breakdown of src/main.py on drawn commits: dates at the
\* edges of the first, the second and the last bucket and around the window
DateMenu(start_date) ==
    {start_date - 1, start_date,
     start_date + BucketDays * TicksPerDay - 1, start_date + BucketDays * TicksPerDay,
     start_date + MonthCount * BucketDays * TicksPerDay - 1,
     start_date + MonthCount * BucketDays * TicksPerDay}

CommitsMenu(start_date) ==
    SeqsUpTo([date : DateMenu(start_date)], MaxBucketCommits)

InitBucket ==
    /\ Idle
    /\ \E start_date \in {10, 11} :
         fn \in [op : {"bucket"}, done : {FALSE}, start_date : {start_date},
                 arg : SeqsUpTo([commits : CommitsMenu(start_date)], MaxBucketRepos),
                 out : {<< >>}]

ApplyBucket ==
    /\ fn.op = "bucket"
    /\ ~fn.done
    /\ fn' = [fn EXCEPT !.done = TRUE,
                        !.out = create_monthly_breakdown(fn.start_date, fn.arg)]
    /\ UNCHANGED RunVars

SpecBucket == InitBucket /\ [][ApplyBucket]_vars

\* TerraformAnalyzer.analyze_repository on one drawn commit: subjects with
\* the marker in several letter cases, without it and nearly with it,
\* over file lists of infra and other paths
UPPER_TF == <<"M", ".", "T", "F">>

MessageMenu ==
    {Join(FIX), Join(SKIP), SKIPCI,
     <<"[", "S", "K", "I", "P", " ", "C", "I", "]">>,
     <<"f", "i", "x", " ", "[", "s", "K", "i", "P", " ", "c", "I", "]", " ", "x">>,
     <<"[", "s", "k", "i", "p", "c", "i", "]">>,
     <<"s", "k", "i", "p", " ", "c", "i">>}

FilesMenu == SeqsUpTo({Join(README), Join(MAIN_TF), Join(VARS_JSON), UPPER_TF}, MaxFiles)

InitClassify ==
    /\ Idle
    /\ fn \in [op : {"classify"}, done : {FALSE},
               arg : [date : {Midnight(1)}, sha : {ShaWord(1)},
                      message : MessageMenu, files : FilesMenu],
               out : {[total_commits |-> 0, commits |-> << >>]}]

ApplyClassify ==
    /\ fn.op = "classify"
    /\ ~fn.done
    /\ fn' = [fn EXCEPT !.done = TRUE, !.out = analyze_commits(<<fn.arg>>)]
    /\ UNCHANGED RunVars

SpecClassify == InitClassify /\ [][ApplyClassify]_vars

\* is_terraform_file on drawn paths: a stem, an extension and a tail
StemMenu ==
    {<< >>, <<"m">>, <<"m", "a", "i", "n">>, <<"M", "A", "I", "N">>, <<"d", "/", "m">>}

ExtMenu ==
    {<< >>, TF, TFVARS, TFVJSON,
     <<".", "T", "F">>, <<".", "T", "f", "v", "a", "r", "s">>,
     <<".", "t", "f", "v", "a", "r", "s", ".", "J", "S", "O", "N">>,
     <<".", "t", "f", "v", "a", "r">>, <<".", "j", "s", "o", "n">>,
     <<"t", "f">>, <<".", "m", "d">>}

TailMenu == {<< >>, <<".", "b", "a", "k">>, <<" ">>}

PathMenu == {s \o e \o t : s \in StemMenu, e \in ExtMenu, t \in TailMenu}

InitSuffix ==
    /\ Idle
    /\ fn \in [op : {"suffix"}, done : {FALSE}, arg : PathMenu, out : {FALSE}]

ApplySuffix ==
    /\ fn.op = "suffix"
    /\ ~fn.done
    /\ fn' = [fn EXCEPT !.done = TRUE, !.out = is_terraform_file(fn.arg)]
    /\ UNCHANGED RunVars

SpecSuffix == InitSuffix /\ [][ApplySuffix]_vars

\* the two predict_usage functions on drawn series: "growth" is
\* UsagePredictor.predict_usage, "trend" the legacy script's
CountsMenu == SeqsUpTo(0..MaxCount, MaxPoints)

InitPredict ==
    /\ Idle
    /\ fn \in [op : {"predict"}, done : {FALSE}, policy : {"growth", "trend"},
               arg : CountsMenu, out : {[monthly |-> 0, annual |-> 0]}]

ApplyPredict ==
    /\ fn.op = "predict"
    /\ ~fn.done
    /\ fn' = [fn EXCEPT !.done = TRUE,
                        !.out = IF fn.policy = "growth" THEN predict_usage(fn.arg)
                                ELSE legacy_predict_usage(fn.arg)]
    /\ UNCHANGED RunVars

SpecPredict == InitPredict /\ [][ApplyPredict]_vars

\* get_commits on a drawn history, window and branch argument ("" is None)
InitLog ==
    /\ Idle
    /\ fn \in [op : {"log"}, done : {FALSE}, history : 1..Len(HistoryMenu),
               start_date : {NoneDate, StartDate(WindowDays), Midnight(45), Midnight(46)},
               end_date : {EndDate, Midnight(74), Midnight(60) + 1},
               branch : {"", "main", "dev"}, run : {"ok", "nonzero", "raise"},
               out : {<< >>}]

ApplyLog ==
    /\ fn.op = "log"
    /\ ~fn.done
    /\ fn' = [fn EXCEPT !.done = TRUE,
                        !.out = get_commits(HistoryMenu[fn.history], fn.start_date,
                                            fn.end_date, fn.branch, fn.run)]
    /\ UNCHANGED RunVars

SpecLog == InitLog /\ [][ApplyLog]_vars

\* the parsing of get_commits on drawn log outputs: each entry is a
\* header line and its changed-file lines, followed by a blank line.
\* Subjects of one word, of two and none; paths of one word, of two, and
\* of three whose second word has 40 characters, one of them starting
\* with a word that reads as a date.
FORTY == [i \in 1..ShaLen |-> "a"]

SubjectMenu == {FIX, SKIP, <<TextWord(<< >>)>>}

FileLineMenu ==
    {MAIN_TF,
     <<TextWord(<<"a">>), TextWord(<<"b", ".", "t", "f">>)>>,
     <<TextWord(<<"a">>), TextWord(FORTY), TextWord(<<"c", ".", "t", "f">>)>>,
     <<DateWord(1), TextWord(FORTY), TextWord(<<"c", ".", "t", "f">>)>>}

EntryMenu ==
    [header : {<<DateWord(2), ShaWord(id)>> \o subject :
                  id \in 1..MaxEntries, subject \in SubjectMenu},
     files  : SeqsUpTo(FileLineMenu, MaxFileLines)]

LogOf(entries) ==
    Flatten([i \in 1..Len(entries) |->
                <<entries[i].header>> \o entries[i].files \o << << >> >>])

InitParse ==
    /\ Idle
    /\ fn \in [op : {"parse"}, done : {FALSE},
               arg : SeqsUpTo(EntryMenu, MaxEntries), out : {<< >>}]

ApplyParse ==
    /\ fn.op = "parse"
    /\ ~fn.done
    /\ fn' = [fn EXCEPT !.done = TRUE, !.out = parse_log(LogOf(fn.arg))]
    /\ UNCHANGED RunVars

SpecParse == InitParse /\ [][ApplyParse]_vars

\* the month-label mapping of the reports on drawn series: "end" is the
\* test driver's, labelled back from end_date, "start" that of src/main.py
\* and of the legacy script, labelled forward from start_date; the dates
\* are the first, a middle and the last day of months
LabelDays == {60, 75, 89, 90, 119, 150}

InitLabels ==
    /\ Idle
    /\ fn \in [op : {"labels"}, done : {FALSE}, scheme : {"end", "start"},
               date : {Midnight(d) + 1 : d \in LabelDays},
               arg : CountsMenu, out : {<< >>}]

ApplyLabels ==
    /\ fn.op = "labels"
    /\ ~fn.done
    /\ fn' = [fn EXCEPT !.done = TRUE,
                        !.out = IF fn.scheme = "end"
                                THEN monthly_breakdown(fn.date, fn.arg)
                                ELSE main_monthly_breakdown(fn.date, fn.arg)]
    /\ UNCHANGED RunVars

SpecLabels == InitLabels /\ [][ApplyLabels]_vars

\* ------------------------------------------------------------ the claims
FetchFailed(f) ==
    \/ f.clone \in {"clone_failed", "update_failed"}
    \/ f.log \in {"nonzero", "raise"}

CloneFailed(f) == f.clone \in {"clone_failed", "update_failed"}

\* the element-wise sum of series, the shorter ones padded with zeros
MaxLength(series) ==
    IF series = << >> THEN 0
    ELSE CHOOSE n \in {Len(series[k]) : k \in 1..Len(series)} :
            \A k \in 1..Len(series) : Len(series[k]) <= n

PaddedSum(series) ==
    [i \in 1..MaxLength(series) |->
        SumSeq([k \in 1..Len(series) |-> IF i <= Len(series[k]) THEN series[k][i] ELSE 0])]

ListingSucceeded == page >= Pages

\* C1: a repository whose history could not be obtained (clone or update
\* failure, non-zero exit of the log command, exception while running it)
\* never aborts the run: its analysis raises nothing, it adds no commits to
\* the collected statistics, and when the run is over every listed
\* repository has been analysed.
C1_FetchFailureNeverAborts ==
    \A k \in 1..Len(fate) :
        FetchFailed(fate[k]) =>
            /\ ~fate[k].raised
            /\ \A j \in 1..Len(repo_stats) :
                  repo_stats[j].name = fate[k].name => repo_stats[j].total_commits = 0
            /\ (pc = "done" => Len(fate) = Len(repos))

\* C2: when the listing succeeded the run ends with a report written, also
\* when no listed repository has a qualifying commit, and the report then
\* forecasts monthly 0, annual 0 with confidence low.
C2_ListingSucceededCompletes ==
    (pc = "done" /\ ListingSucceeded) =>
        /\ report # << >>
        /\ (Active(repo_stats) = << >> =>
              /\ report[1].predictions.monthly = 0
              /\ report[1].predictions.annual = 0
              /\ report[1].predictions.confidence = "low")

\* C3: once a repository has been analysed, on whatever path (success, no
\* qualifying commits, clone failure, update failure of a directory already
\* there, fetch failure, exception after the clone), its working directory
\* no longer exists.  A removal that itself failed is left aside.
C3_WorkingDirectoryRemoved ==
    \A k \in 1..Len(fate) :
        fate[k].removal # "failed" => fate[k].name \notin dirs

\* C4: with the window length 0 (start unset) the analysis of a repository
\* that could be cloned does not fail: it yields the repository's monthly
\* series and forecast.
C4_AllTimeWindowAnalysed ==
    env.analysis_days = 0 =>
        \A k \in 1..Len(fate) :
            ~CloneFailed(fate[k]) =>
                /\ ~fate[k].raised
                /\ \E j \in 1..Len(repo_stats) : repo_stats[j].name = fate[k].name

\* C5: every remote call is immediately preceded by a check of the call
\* budget, and none is issued while the budget is 0 and the reset time has
\* not passed.
C5_EveryCallCheckedFirst ==
    \A k \in 1..Len(calls) : calls[k].checked /\ ~calls[k].exhausted

\* C6: a run that ended on a fatal error (missing setting, owner not found,
\* credential rejected) and a run that succeeded but found nothing never
\* end in the same observable state (return value, exit status, report).
Ends == runs \cup (IF pc = "done" THEN {End} ELSE {})

C6_FatalDistinguishable ==
    \A a \in Ends, b \in Ends :
        (a.class = "fatal" /\ b.class = "nothing") => a.obs # b.obs

\* C7: in every report the total repository count is the number of active,
\* inactive and failed repositories together, which are all the listed
\* ones, and a failed repository adds nothing to the total commits.
Failed == {k \in 1..Len(fate) : CloneFailed(fate[k])}

C7_RepositoryCountsAddUp ==
    report # << >> =>
        /\ report[1].total_repositories =
              report[1].active_repositories + Len(report[1].inactive) + Cardinality(Failed)
        /\ report[1].total_repositories = Len(repos)
        /\ report[1].total_commits =
              SumSeq([j \in 1..Len(repo_stats) |-> repo_stats[j].total_commits])

\* C8: the sum of series of unequal lengths is the element-wise sum with
\* the shorter series padded with zeros at the end, in whatever order the
\* series come, and is as long as the longest of them.
C8_SumZeroPadsAnyOrder ==
    (fn.op = "sum" /\ fn.done) =>
        /\ fn.out.ok
        /\ fn.out.data = PaddedSum(fn.arg)

\* C9: the aggregate monthly series is the element-wise sum of the series
\* of all analysed repositories and the aggregate total is the sum of their
\* totals; leaving the inactive ones out changes neither.
C9_AggregateIsSumOfAll ==
    aggregated # << >> =>
        /\ aggregated[1].monthly_data =
              PaddedSum([j \in 1..Len(repo_stats) |-> repo_stats[j].monthly_data])
        /\ aggregated[1].total_commits =
              SumSeq([j \in 1..Len(repo_stats) |-> repo_stats[j].total_commits])

\* C10: the monthly breakdown has one count per 30-day bucket from the
\* window start, twelve of them; a commit is counted in the bucket
\* floor((date - start) / 30 days) and in no other, or in none when its
\* date is outside all buckets; no commits give twelve zeros.
BucketCommits ==
    UNION {{<<r, k>> : k \in 1..Len(fn.arg[r].commits)} : r \in 1..Len(fn.arg)}

BucketDate(p) == fn.arg[p[1]].commits[p[2]].date

BothCases(c) ==
    CASE c = "s" -> {"s", "S"} [] c = "k" -> {"k", "K"} [] c = "i" -> {"i", "I"}
      [] c = "p" -> {"p", "P"} [] c = "c" -> {"c", "C"} [] OTHER -> {c}

MarkerAt(message, i) ==
    /\ i + Len(SKIPCI) - 1 <= Len(message)
    /\ \A j \in 1..Len(SKIPCI) : message[i + j - 1] \in BothCases(SKIPCI[j])

InfraPath(path) ==
    \E suf \in {TF, TFVARS, TFVJSON} :
        \E k \in 0..Len(path) : SubSeq(path, k + 1, Len(path)) = suf

\* the selections of positions of files, in increasing order
InOrder(files, positions) ==
    {sel \in [1..Cardinality(positions) -> positions] :
        \A a, b \in DOMAIN sel : a < b => sel[a] < sel[b]}

C11_ClassifyKeepsInfraFiles ==
    (fn.op = "classify" /\ fn.done) =>
        LET c      == fn.arg
            marked == \E i \in 1..Len(c.message) : MarkerAt(c.message, i)
            infra  == {i \in 1..Len(c.files) : InfraPath(c.files[i])}
        IN  IF marked \/ infra = {}
            THEN fn.out.commits = << >> /\ fn.out.total_commits = 0
            ELSE /\ fn.out.total_commits = 1
                 /\ Len(fn.out.commits) = 1
                 /\ \E sel \in InOrder(c.files, infra) :
                       fn.out.commits[1].files = [k \in DOMAIN sel |-> c.files[sel[k]]]

\* [r.md, m.tf] was classified to [m.tf]
C11_Witness ==
    /\ fn.op = "classify"
    /\ fn.done
    /\ fn.arg.files = <<Join(README), Join(MAIN_TF)>>
    /\ fn.out.total_commits = 1
    /\ fn.out.commits[1].files = <<Join(MAIN_TF)>>

\* C12: a path is an infra file exactly when the whole path ends, letter
\* case included, in .tf, .tfvars or .tfvars.json; main.tf.bak and MAIN.TF
\* are not infra files.
C12_InfraFileBySuffix ==
    (fn.op = "suffix" /\ fn.done) =>
        /\ fn.out = InfraPath(fn.arg)
        /\ fn.arg \in {<<"m", "a", "i", "n", ".", "t", "f", ".", "b", "a", "k">>,
                       <<"M", "A", "I", "N", ".", "T", "F">>} => ~fn.out

\* main.tf.bak was tested and found not to be an infra file
C12_Witness ==
    /\ fn.op = "suffix"
    /\ fn.done
    /\ fn.arg = <<"m", "a", "i", "n", ".", "t", "f", ".", "b", "a", "k">>
    /\ ~fn.out

\* C13: for every input series and under both forecasting policies the
\* reported monthly prediction is a non-negative integer and the reported
\* annual prediction is the reported monthly prediction times 12.
C13_AnnualIsTwelveMonthly ==
    (fn.op = "predict" /\ fn.done) =>
        /\ fn.out.monthly \in Nat
        /\ fn.out.annual = 12 * fn.out.monthly

\* the squared deviations from the mean, times n^2
Deviations(y) ==
    SumSeq([i \in 1..Len(y) |-> (Len(y) * y[i] - SumSeq(y)) * (Len(y) * y[i] - SumSeq(y))])

\* the label for a variance of Deviations(y) / (n^2 * divisor) normalised by n^2
LabelFor(y, divisor) ==
    LET n == Len(y)
        d == n * n * n * n * divisor
    IN  IF n < 3 THEN "low"
        ELSE IF 10 * Deviations(y) < d THEN "high"
        ELSE IF 10 * Deviations(y) < 3 * d THEN "medium"
        ELSE "low"

C15_GrowthRateReportedBack ==
    /\ (fn.op = "predict" /\ fn.done /\ fn.policy = "growth") =>
          fn.out.factors.growth_rate = GrowthPercent
    /\ aggregated # << >> =>
          aggregated[1].predictions.factors.growth_rate = GrowthPercent

\* the commits of a history dated in the window (whole days) that are not
\* excluded and touch an infra file
Qualifying(history, start_date, end_date) ==
    {i \in 1..Len(history) :
        /\ SinceDay(start_date) <= history[i].day
        /\ history[i].day <= DayOf(end_date)
        /\ ~\E k \in 1..Len(Join(history[i].subject)) : MarkerAt(Join(history[i].subject), k)
        /\ \E k \in 1..Len(history[i].paths) : InfraPath(Join(history[i].paths[k]))}

LogRan(name) == \E k \in 1..Len(fate) : fate[k].name = name /\ fate[k].log = "ok"

\* C16: the local-history source returns every in-window commit touching a
\* path that ends in .tf, .tfvars or .tfvars.json, so that every
\* non-excluded commit whose only infra change is a .tfvars.json file is
\* counted in its repository's total.
C16_TfvarsJsonCommitsCounted ==
    \A j \in 1..Len(repo_stats) :
        LogRan(repo_stats[j].name) =>
            repo_stats[j].total_commits >=
                Cardinality(Qualifying(HistoryOf(repo_stats[j].name),
                                       StartDate(env.analysis_days), EndDate))

\* C17: with a branch restriction the commits returned are only commits
\* reachable from that branch; with none, the commits of all refs are
\* covered.
C17_BranchRestrictsCommits ==
    (fn.op = "log" /\ fn.done) =>
        LET history  == HistoryMenu[fn.history]
            returned == {fn.out[i].sha.num : i \in 1..Len(fn.out)}
        IN  /\ fn.branch # "" =>
                  \A i \in 1..Len(history) :
                      history[i].sha \in returned => fn.branch \in history[i].refs
            /\ (fn.branch = "" /\ fn.run = "ok") =>
                  \A i \in Qualifying(history, fn.start_date, fn.end_date) :
                      (\E k \in 1..Len(history[i].paths) : EndsWith(Join(history[i].paths[k]), TF))
                      => history[i].sha \in returned

\* C18: for a log output of header lines, each followed by its
\* changed-file lines, the parser returns one record per header line, in
\* order, whose files are the non-blank lines up to the next header; no
\* changed-file line is taken for a header, and when every commit is
\* listed once no identifier is returned twice.
C18_OneRecordPerHeader ==
    (fn.op = "parse" /\ fn.done) =>
        /\ Len(fn.out) = Len(fn.arg)
        /\ \A i \in 1..Len(fn.out) :
              i <= Len(fn.arg) =>
                  /\ fn.out[i].sha = fn.arg[i].header[2]
                  /\ fn.out[i].date = Midnight(fn.arg[i].header[1].num)
                  /\ fn.out[i].files =
                        [k \in 1..Len(fn.arg[i].files) |-> Join(fn.arg[i].files[k])]
        /\ (\A i, j \in 1..Len(fn.arg) :
                i # j => fn.arg[i].header[2] # fn.arg[j].header[2])
              => \A i, j \in 1..Len(fn.out) : i # j => fn.out[i].sha # fn.out[j].sha

\* C19: for every repository result and for the aggregate the total
\* commit count is the sum of the monthly series: every commit returned
\* for the window is counted in exactly one bucket.
C19_TotalIsSumOfMonthly ==
    /\ \A j \in 1..Len(repo_stats) :
          repo_stats[j].total_commits = SumSeq(repo_stats[j].monthly_data)
    /\ aggregated # << >> =>
          aggregated[1].total_commits = SumSeq(aggregated[1].monthly_data)

RECURSIVE SumOver(_, _)
SumOver(f, S) ==
    IF S = {} THEN 0
    ELSE LET x == CHOOSE x \in S : TRUE IN f[x] + SumOver(f, S \ {x})

\* C20: the report's mapping from month labels to counts has one entry per
\* element of the monthly series, the labels of the buckets being pairwise
\* distinct, so that the mapped counts sum to the sum of the series.
C20_OneLabelPerBucket ==
    (fn.op = "labels" /\ fn.done) =>
        /\ Cardinality(DOMAIN fn.out) = Len(fn.arg)
        /\ SumOver(fn.out, DOMAIN fn.out) = SumSeq(fn.arg)

====
